---------------------------- MODULE Spec2Model ----------------------------
(***************************************************************************)
(* Geometry generation of FreeCAD-NativeIFC (src/ifc_generator.py):        *)
(* decomposition and filtering of IFC elements, the shape and coin         *)
(* assemblers driven by the ifcopenshell geometry iterator, the per-file   *)
(* geometry cache, and generate_geometry / create_ghost on top of them.    *)
(***************************************************************************)
EXTENDS Integers, Sequences, FiniteSets, TLC

VARIABLES
    hasOwner,   \* a document object whose Proxy.ifcfile is the ifc file exists
    GuiUp,      \* FreeCAD.GuiUp: document objects have a ViewObject
    noStyle,    \* identities whose brep item carries an empty surface_styles
    mat,        \* identities materialized as document objects (have a StepId)
    grp,        \* materialized identities held under a plain group object
    focus,      \* the document object whose execute method calls generate_geometry
    ifccache,   \* Proxy.ifccache of the owner
    node,       \* per document object: ShapeMode, Shape, Placement, colors, slot
    ghost,      \* document.Proxy.ghost, and the scene graph children added for it
    loc,        \* per call in flight: position and local variables
    lastAsm,    \* summary of the last assembler call that returned
    lastGen,    \* summary of the last generate_geometry call that ended
    fin,        \* filter_types under test: elements, obj_ids, result
    dec         \* get_decomposition under test: object, result

vars == <<hasOwner, GuiUp, noStyle, mat, grp, focus, ifccache, node, ghost,
          loc, lastAsm, lastGen, fin, dec>>

-----------------------------------------------------------------------------
(* Bounds *)

\* longest element list handed to filter_types when it is checked on its own
MaxLen == 3

-----------------------------------------------------------------------------
(* The IFC file: elements, classes, representations, decomposition.         *)

ElemIds == 1..11

\* entity class of each element of the file
IfcClass(e) ==
    CASE e = 1 -> "IfcProject"
      [] e = 2 -> "IfcBuildingStorey"
      [] e = 3 -> "IfcWall"
      [] e = 4 -> "IfcSpace"
      [] e = 5 -> "IfcOpeningElement"
      [] e = 6 -> "IfcBuildingElementPart"
      [] e = 7 -> "IfcFurniture"
      [] e = 8 -> "IfcAnnotation"
      [] e = 9 -> "IfcBuildingElementProxy"
      [] e = 10 -> "IfcSite"
      [] OTHER -> "IfcProjectionElement"

\* the class and its supertypes in the IFC schema, as element.is_a(x) sees them
Supertypes(c) ==
    CASE c = "IfcProject" -> {"IfcProject", "IfcContext", "IfcObject"}
      [] c = "IfcBuildingStorey" ->
            {"IfcBuildingStorey", "IfcSpatialStructureElement", "IfcProduct", "IfcObject"}
      [] c = "IfcSite" ->
            {"IfcSite", "IfcSpatialStructureElement", "IfcProduct", "IfcObject"}
      [] c = "IfcSpace" ->
            {"IfcSpace", "IfcSpatialStructureElement", "IfcProduct", "IfcObject"}
      [] c = "IfcWall" -> {"IfcWall", "IfcElement", "IfcProduct", "IfcObject"}
      [] c = "IfcBuildingElementPart" ->
            {"IfcBuildingElementPart", "IfcElement", "IfcProduct", "IfcObject"}
      [] c = "IfcBuildingElementProxy" ->
            {"IfcBuildingElementProxy", "IfcElement", "IfcProduct", "IfcObject"}
      [] c = "IfcOpeningElement" ->
            {"IfcOpeningElement", "IfcFeatureElementSubtraction", "IfcFeatureElement",
             "IfcElement", "IfcProduct", "IfcObject"}
      [] c = "IfcProjectionElement" ->
            {"IfcProjectionElement", "IfcFeatureElementAddition", "IfcFeatureElement",
             "IfcElement", "IfcProduct", "IfcObject"}
      [] c = "IfcFurniture" ->
            {"IfcFurniture", "IfcFurnishingElement", "IfcElement", "IfcProduct", "IfcObject"}
      [] OTHER -> {"IfcAnnotation", "IfcProduct", "IfcObject"}

is_a(e, c) == c \in Supertypes(IfcClass(e))

\* getattr(element, "Representation", None) is truthy
Representation(e) == e \in {3, 4, 5, 6, 7, 8, 11}

\* direct decomposition of an element (aggregation, containment, openings);
\* part 6 is aggregated by wall 3 and also contained in storey 2
Children(e) ==
    CASE e = 1 -> <<2, 10>>
      [] e = 2 -> <<3, 4, 9, 7, 8, 6>>
      [] e = 3 -> <<5, 6, 11>>
      [] OTHER -> <<>>

\* ifcopenshell.util.element.get_decomposition(element): every descendant,
\* gathered with a work list, an element reached twice listed twice
RECURSIVE UtilDecomposition(_, _)
UtilDecomposition(queue, results) ==
    IF queue = <<>> THEN results
    ELSE LET e == queue[Len(queue)]
             q == SubSeq(queue, 1, Len(queue) - 1)
         IN  UtilDecomposition(q \o Children(e), results \o Children(e))

Range(s) == {s[i] : i \in DOMAIN s}

NoDup(s) == \A i, j \in DOMAIN s : s[i] = s[j] => i = j

\* result.append(x) guarded by "x not in result", over a sequence of candidates
RECURSIVE AppendNew(_, _)
AppendNew(result, xs) ==
    IF xs = <<>> THEN result
    ELSE AppendNew(IF xs[1] \in Range(result) THEN result ELSE Append(result, xs[1]),
                   Tail(xs))


-----------------------------------------------------------------------------
(* The document: objects created for materialized elements.                 *)

\* obj = None (create_ghost passes no object)
NoObj == 0

\* the document object of a materialized element carries its identity as StepId;
\* the plain group object kept under the object of element e is -e
HasStepId(o) == o > 0

StepId(o) == o

\* the element under whose object a materialized element is placed
DocParent(c) ==
    CASE c \in {2, 10} -> 1
      [] c \in {3, 4, 7, 8, 9} -> 2
      [] c \in {5, 6, 11} -> 3
      [] OTHER -> 0

WellFormedDoc(m, g) ==
    /\ 1 \in m
    /\ \A c \in m \ {1} : DocParent(c) \in m
    /\ g \subseteq m \ {1}

\* obj.Group: the objects of the materialized children, those moved into the
\* plain group object being reached through it
Group(o) ==
    IF o > 0
    THEN SelectSeq(Children(o), LAMBDA c : c \in mat \ grp /\ DocParent(c) = o)
         \o (IF \E c \in mat \cap grp : DocParent(c) = o THEN <<0 - o>> ELSE <<>>)
    ELSE SelectSeq(Children(0 - o), LAMBDA c : c \in mat \cap grp /\ DocParent(c) = 0 - o)

\* obj.OutListRecursive: every object reached through the Group lists
RECURSIVE OutListRecursive(_)
OutListRecursive(o) ==
    Range(Group(o)) \cup UNION {OutListRecursive(c) : c \in Range(Group(o))}

\* the objects of the document that stand for an element
Objects == mat

-----------------------------------------------------------------------------
(* Decomposition Resolver                                                   *)

\* filter_types without the IfcFurnishingElement line
filter_types_keep_furnishing(elements, obj_ids) ==
    SelectSeq(elements, LAMBDA e :
        /\ is_a(e, "IfcProduct")
        /\ ~is_a(e, "IfcFeatureElement")
        /\ ~is_a(e, "IfcOpeningElement")
        /\ ~is_a(e, "IfcSpace")
        /\ ~is_a(e, "IfcAnnotation")
        /\ e \notin obj_ids)

filter_types(elements, obj_ids) ==
    LET l1 == SelectSeq(elements, LAMBDA e : is_a(e, "IfcProduct"))
        l2 == SelectSeq(l1, LAMBDA e : ~is_a(e, "IfcFeatureElement"))
        l3 == SelectSeq(l2, LAMBDA e : ~is_a(e, "IfcOpeningElement"))
        l4 == SelectSeq(l3, LAMBDA e : ~is_a(e, "IfcSpace"))
        l5 == SelectSeq(l4, LAMBDA e : ~is_a(e, "IfcFurnishingElement"))
        l6 == SelectSeq(l5, LAMBDA e : ~is_a(e, "IfcAnnotation"))
    IN  SelectSeq(l6, LAMBDA e : e \notin obj_ids)

\* the loop over the direct children of get_decomposed_elements
RECURSIVE DecomposeChildren(_, _, _)
DecomposeChildren(result, children, child_ids) ==
    IF children = <<>> THEN result
    ELSE LET child == children[1]
             r1 == IF child \in child_ids THEN result
                   ELSE AppendNew(AppendNew(result, <<child>>),
                                  UtilDecomposition(<<child>>, <<>>))
         IN  DecomposeChildren(r1, Tail(children), child_ids)

get_decomposed_elements(element, obj) ==
    LET r0 == IF Representation(element) THEN <<element>> ELSE <<>>
        child_ids == IF obj = NoObj THEN {}
                     ELSE {StepId(c) : c \in {x \in Range(Group(obj)) : HasStepId(x)}}
    IN  DecomposeChildren(r0, Children(element), child_ids)

\* get_decomposition with the exclusion list taken from obj.Group only
get_decomposition_direct_only(obj) ==
    filter_types(get_decomposed_elements(StepId(obj), obj),
                 {StepId(c) : c \in {x \in Range(Group(obj)) : HasStepId(x)}})

get_decomposition(obj) ==
    LET obj_ids == {StepId(c) : c \in {x \in OutListRecursive(obj) : HasStepId(x)}}
    IN  filter_types(get_decomposed_elements(StepId(obj), obj), obj_ids)

-----------------------------------------------------------------------------
(* Values: solids, coin nodes, placements, colors                           *)

\* ifc_tools.SCALE, the linear unit factor applied to the raw coordinates
SCALE == 1000

\* geometry of the file, one coordinate per element: the raw point of its
\* geometry and the translation of its transformation matrix
RawPoint(e) == IF e = 3 THEN 2 ELSE 5

Translation(e) == IF e = 3 THEN 7 ELSE 0 - 4

\* number of faces of each sub-solid of the element's brep
SolidFaces(e) == IF e = 3 THEN <<2, 1>> ELSE <<1>>

\* item.geometry.surface_styles: four floats per style
surface_styles(e) ==
    IF e \in noStyle THEN <<>>
    ELSE IF e = 3 THEN <<10, 20, 30, 0, 40, 50, 60, 0>>
    ELSE <<70, 80, 90, 50>>

\* item.geometry.materials: diffuse colors, possibly none
materials(e) == IF e = 3 THEN <<(<<10, 20, 30>>)>> ELSE <<>>

RECURSIVE SumSeq(_)
SumSeq(s) == IF s = <<>> THEN 0 ELSE s[1] + SumSeq(Tail(s))

\* n copies of x
Repeat(x, n) == [i \in 1..n |-> x]

RECURSIVE Flatten(_)
Flatten(ss) == IF ss = <<>> THEN <<>> ELSE ss[1] \o Flatten(Tail(ss))

NullShape == [kind |-> "null", id |-> 0, pt |-> 0, Placement |-> 0,
              solids |-> <<>>, parts |-> <<>>]

\* Part.makeBox(1, 1, 1)
BoxShape == [NullShape EXCEPT !.kind = "box", !.solids = <<6>>]

\* the Python list the shape assembler returns when every element was cached
ListOf(shapes) == [NullShape EXCEPT !.kind = "list", !.parts = shapes]
\* the list of solids handed back as it is, not compounded
makeCompound_list(shapes) == ListOf(shapes)

\* Part.makeCompound(shapes)
makeCompound(shapes) == [NullShape EXCEPT !.kind = "compound", !.parts = shapes]
\* transformShape(mat) before scale(SCALE): the translation is scaled too
BrepShape_placed_first(e) ==
    [kind |-> "solid", id |-> e, pt |-> (RawPoint(e) + Translation(e)) * SCALE,
     Placement |-> Translation(e), solids |-> SolidFaces(e), parts |-> <<>>]

\* importBrepFromString, then scale(SCALE) before transformShape(mat)
BrepShape(e) ==
    [kind |-> "solid", id |-> e, pt |-> RawPoint(e) * SCALE + Translation(e),
     Placement |-> Translation(e), solids |-> SolidFaces(e), parts |-> <<>>]

\* len(shape.Faces)
NumFaces(shape) ==
    IF shape.kind = "solid" \/ shape.kind = "box" THEN SumSeq(shape.solids)
    ELSE SumSeq([i \in DOMAIN shape.parts |-> SumSeq(shape.parts[i].solids)])

NoPlacement == [some |-> FALSE, t |-> 0]

\* FreeCAD.Placement(matrix)
PlacementOf(t) == [some |-> TRUE, t |-> t]

NoNode == [kind |-> "none", id |-> 0, coords |-> 0, material |-> <<>>, children |-> <<>>]

\* coin.SoSeparator() holding the given children
GroupNode(children) == [NoNode EXCEPT !.kind = "group", !.children = children]

\* the separator built for one item: material, coordinates scaled by SCALE,
\* face set; the placement is not part of the coordinates
ItemNode(e) ==
    [kind |-> "sep", id |-> e, coords |-> RawPoint(e) * SCALE,
     material |-> IF materials(e) # <<>> THEN materials(e)[1] ELSE <<85, 85, 85>>,
     children |-> <<>>]

\* apply_coin_placement twice over
apply_coin_placement_twice(n, placement) ==
    [n EXCEPT !.coords = @ + placement.t + placement.t]

\* apply_coin_placement: every vertex becomes placement.multVec(vertex)
apply_coin_placement(n, placement) == [n EXCEPT !.coords = @ + placement.t]

-----------------------------------------------------------------------------
(* Geometry Cache                                                           *)

EmptyMap == <<>>
\* the mapping replaced by one that holds the new entry only
Put_only(m, k, v) == [x \in {k} |-> v]

Put(m, k, v) == [x \in DOMAIN m \cup {k} |-> IF x = k THEN v ELSE m[x]]

EmptyCache == [Shape |-> EmptyMap, Color |-> EmptyMap,
               Coin |-> EmptyMap, Placement |-> EmptyMap]
\* the cache rebuilt around the solid written, the mesh mappings dropped
CacheSolid_reset(cache, k, shape, scolors) ==
    [EmptyCache EXCEPT !.Shape = Put(cache.Shape, k, shape),
                       !.Color = Put(cache.Color, k, scolors)]

\* "update the cache" of generate_shape: the solid and the colors of the item
CacheSolid(cache, k, shape, scolors) ==
    [cache EXCEPT !.Shape = Put(@, k, shape), !.Color = Put(@, k, scolors)]

\* the node cached without its placement
CacheMesh_node_only(cache, k, n, placement) ==
    [cache EXCEPT !.Coin = Put(@, k, n)]

\* "update cache" of generate_coin: the node and the placement of the item
CacheMesh(cache, k, n, placement) ==
    [cache EXCEPT !.Coin = Put(@, k, n), !.Placement = Put(@, k, placement)]

\* Proxy.ifccache of a fresh owner: nothing held
NoCache == [held |-> FALSE, c |-> EmptyCache]

\* get_cache: the owner's cache when an owner exists and holds one, else a new one
get_cache(owner, cc) == IF owner /\ cc.held THEN cc.c ELSE EmptyCache

\* get_cache returned the owner's own dictionary: writes to it are writes to
\* Proxy.ifccache
Aliased(owner, cc) == owner /\ cc.held

\* set_cache that stores the cache without looking for an owner
set_cache_any(owner, cc, cache) == [held |-> TRUE, c |-> cache]

\* set_cache: assigns the cache onto the owner, nothing without an owner
set_cache(owner, cc, cache) ==
    IF owner THEN [held |-> TRUE, c |-> cache] ELSE cc

\* element.id, the bound method of an entity (element.id() is its identity):
\* no integer, written here as the negated identity
BoundMethodId(e) == 0 - e

\* element.id() : the identity
IdOf(e) == e

-----------------------------------------------------------------------------
(* Geometry Iterator Adapter: what the engine can hand back                 *)

\* iterator.get() returned nothing usable
NoItem == 0

\* the identities the engine can produce geometry for: the elements handed
\* to it that have a representation
Producible(elements) == {e \in Range(elements) : Representation(e)}

\* every item the engine yields is taken, yielded before or not
Fresh_any(item, done) == item # NoItem

\* "if item and item.id not in done": the item is processed in this call
Fresh(item, done) == item # NoItem /\ item \notin Range(done)

\* what iterator.get() can return at one turn of the pull loop: an element not
\* yet yielded, in any order; once, an element yielded before; or, as the only
\* turn, nothing usable
Yieldable(left, done, rep) ==
    left \cup (IF ~rep THEN Range(done) ELSE {})
         \cup (IF done = <<>> /\ ~rep THEN {NoItem} ELSE {})

\* what iterator.next() can return after that turn: False at any time (an
\* element may be left out), True only while the engine has something to yield
CanAdvance(item, left, done, rep) ==
    IF item = NoItem THEN {FALSE}
    ELSE IF left \ {item} # {} \/ ~(rep \/ item \in Range(done)) THEN BOOLEAN
    ELSE {FALSE}

-----------------------------------------------------------------------------
(* Local state of a call                                                    *)

\* the calls that can be in flight: one when the caller serializes them, two
\* when it does not
Procs == {1, 2}

Serial == {1}

NoResult == [ok |-> FALSE, shape |-> NullShape, colors |-> <<>>,
             node |-> NoNode, placement |-> NoPlacement]

Idle == [pc |-> "idle", caller |-> "none", obj |-> NoObj, cached |-> FALSE,
         basenode |-> FALSE, asm |-> "none", elems0 |-> <<>>, elements |-> <<>>,
         cache |-> EmptyCache, alias |-> FALSE, got |-> FALSE, hits |-> {},
         shapes |-> <<>>, colors |-> <<>>, nodes |-> <<>>, cached_nodes |-> <<>>,
         placement |-> NoPlacement, grouping |-> FALSE, left |-> {},
         rep |-> FALSE, done |-> <<>>, opened |-> FALSE, res |-> NoResult, printed |-> FALSE,
         raised |-> FALSE, cache0 |-> NoCache]

\* what a mesh assembly returned: the group and the placement
NoOut == [node |-> NoNode, placement |-> NoPlacement]

NoAsm == [asm |-> "none", caller |-> "none", elems |-> <<>>, cached |-> FALSE,
          opened |-> FALSE, full |-> FALSE, out |-> NoOut]

NoGen == [obj |-> NoObj, mode |-> "None", cached |-> FALSE, raised |-> FALSE,
          Shape |-> NullShape, Placement |-> 0, colors |-> <<>>]

NewNode(mode) == [ShapeMode |-> mode, Shape |-> NullShape, Placement |-> 0,
                  colors |-> <<>>, slot |-> <<>>]

NoGhost == [has |-> FALSE, node |-> NoNode, sg |-> <<>>]

Modes == {"None", "Coin", "Shape"}

\* the document generate_geometry runs on: project, storey, wall and space are
\* materialized, the wall held under a plain group object of the storey
MainMat == {1, 2, 3, 4}

MainGrp == {3}

StaticUnchanged == UNCHANGED <<hasOwner, GuiUp, noStyle, mat, grp, focus, fin, dec>>

Set(p, l) == loc' = [loc EXCEPT ![p] = l]

\* a write into the local cache dictionary; it is a write into Proxy.ifccache
\* when the dictionary is the owner's
WriteThrough(l, cache) ==
    ifccache' = IF l.alias THEN [held |-> TRUE, c |-> cache] ELSE ifccache

\* a local copy of the dictionary where the code keeps a reference to it
Dict_copy(l) == l.cache

\* the dictionary the local name cache is bound to: the owner's own when
\* get_cache or set_cache made them one object
Dict(l) == IF l.alias THEN ifccache.c ELSE l.cache

\* the locals after set_cache(ifcfile, cache) of call p, l2 being its own: a
\* call still bound to the dictionary the owner held before keeps that
\* dictionary, which is the owner's no more
SetCacheLocals(p, l2) ==
    loc' = [q \in DOMAIN loc |->
               IF q = p THEN l2
               ELSE IF hasOwner /\ ~loc[p].alias /\ loc[q].alias
               THEN [loc[q] EXCEPT !.alias = FALSE, !.cache = ifccache.c]
               ELSE loc[q]]

Summary(l) ==
    [asm |-> l.asm, caller |-> l.caller, elems |-> l.elems0, cached |-> l.cached,
     opened |-> l.opened, full |-> Range(l.elems0) \subseteq Range(l.done),
     out |-> IF /\ l.asm = "coin" /\ ~l.cached /\ l.res.ok
                /\ Range(l.elems0) \subseteq Range(l.done)
             THEN [node |-> l.res.node, placement |-> l.res.placement]
             ELSE NoOut]

-----------------------------------------------------------------------------
(* generate_geometry: entry, clean_representation, placeholder, dispatch    *)

\* the execute method of the object calls generate_geometry(obj, cached)
Execute(p) ==
    /\ loc[p].pc = "idle"
    /\ \E cached \in BOOLEAN :
          Set(p, [Idle EXCEPT !.pc = "clean", !.caller = "generate",
                              !.obj = focus, !.cached = cached,
                              !.cache0 = ifccache])
    /\ UNCHANGED <<ifccache, node, ghost, lastAsm, lastGen>>
    /\ StaticUnchanged
\* clean_representation that never removes the node added before
clean_representation_keep(slot) == slot

\* clean_representation: with five children under the base node, the fifth
\* (the one added by an earlier call) is removed
clean_representation(slot) == IF Len(slot) = 1 THEN <<>> ELSE slot

CleanRepresentation(p) ==
    /\ loc[p].pc = "clean"
    /\ LET l == loc[p] IN
          /\ node' = IF GuiUp
                     THEN [node EXCEPT ![l.obj].slot = clean_representation(@)]
                     ELSE node
          /\ Set(p, [l EXCEPT !.pc = "placeholder", !.basenode = GuiUp])
    /\ UNCHANGED <<ifccache, ghost, lastAsm, lastGen>>
    /\ StaticUnchanged

\* the placeholder step left out
PlaceholderShape_skip(old) == old

\* obj.Shape = Part.makeBox(1, 1, 1)
PlaceholderShape(old) == BoxShape

\* placeholder, then ifcfile and elements and the choice of the assembler
Placeholder(p) ==
    /\ loc[p].pc = "placeholder"
    /\ LET l == loc[p]
           elements == get_decomposition(l.obj)
           mode == node[l.obj].ShapeMode
       IN
          /\ node' = [node EXCEPT ![l.obj].Shape = PlaceholderShape(@)]
          /\ Set(p, [l EXCEPT
                 !.pc = IF mode = "Shape" THEN "shape_setup"
                        ELSE IF l.basenode /\ mode = "Coin" THEN "coin_setup"
                        ELSE "done",
                 !.asm = IF mode = "Shape" THEN "shape"
                         ELSE IF l.basenode /\ mode = "Coin" THEN "coin"
                         ELSE "none",
                 !.elems0 = elements, !.elements = elements])
    /\ UNCHANGED <<ifccache, ghost, lastAsm, lastGen>>
    /\ StaticUnchanged

-----------------------------------------------------------------------------
(* Shape Assembler: generate_shape                                          *)

\* the loop over the elements when cached: solids and colors found in the
\* cache under element.id, the others left in rest
RECURSIVE ShapeFromCache(_, _, _)
ShapeFromCache(acc, elements, cache) ==
    IF elements = <<>> THEN acc
    ELSE LET e == elements[1]
             k == BoundMethodId(e)
         IN  IF k \in DOMAIN cache.Shape
             THEN LET shape == cache.Shape[k]
                      color == IF k \in DOMAIN cache.Color THEN cache.Color[k]
                               ELSE <<80, 80, 80>>
                  IN  ShapeFromCache(
                          [acc EXCEPT !.shapes = Append(@, shape),
                                      !.colors = IF Len(color) <= 4
                                                 THEN @ \o Repeat(color, NumFaces(shape))
                                                 ELSE color,
                                      !.hits = @ \cup {e}],
                          Tail(elements), cache)
             ELSE ShapeFromCache([acc EXCEPT !.rest = Append(@, e)],
                                 Tail(elements), cache)

\* setup and cached elements, up to the point where the iterator is prepared
ShapeSetup(p) ==
    /\ loc[p].pc = "shape_setup"
    /\ LET l == loc[p] IN
          IF l.elements = <<>>
          THEN Set(p, [l EXCEPT !.pc = "shape_ret", !.res = NoResult])
          ELSE LET cache == get_cache(hasOwner, ifccache)
                   l1 == [l EXCEPT !.cache = cache, !.got = TRUE,
                                   !.alias = Aliased(hasOwner, ifccache)]
                   acc == ShapeFromCache([shapes |-> <<>>, colors |-> <<>>,
                                          rest |-> <<>>, hits |-> {}],
                                         l.elements, cache)
               IN  IF ~l.cached
                   THEN Set(p, [l1 EXCEPT !.pc = "shape_open"])
                   ELSE IF acc.rest = <<>>
                   THEN Set(p, [l1 EXCEPT !.pc = "shape_ret", !.hits = acc.hits,
                                   !.res = [NoResult EXCEPT !.ok = TRUE,
                                               !.shape = ListOf(acc.shapes),
                                               !.colors = acc.colors]])
                   ELSE Set(p, [l1 EXCEPT !.pc = "shape_open", !.hits = acc.hits,
                                   !.shapes = acc.shapes, !.colors = acc.colors,
                                   !.elements = acc.rest])
    /\ UNCHANGED <<ifccache, node, ghost, lastAsm, lastGen>>
    /\ StaticUnchanged

\* the cache is written back although the iterator is invalid
InvalidIterator_written(owner, ic, cache) == set_cache(owner, ic, cache)

\* "if iterator is None: return": the owner's cache after the return, which is
\* made without set_cache
InvalidIterator(owner, ic, cache) == ic

\* get_geom_iterator in brep mode: None when initialize() fails
ShapeOpen(p) ==
    /\ loc[p].pc = "shape_open"
    /\ LET l == loc[p] IN
          \/ /\ Set(p, [l EXCEPT !.pc = "shape_ret", !.opened = TRUE, !.res = NoResult])
             /\ ifccache' = InvalidIterator(hasOwner, ifccache, Dict(l))
          \/ /\ Set(p, [l EXCEPT !.pc = "shape_loop", !.opened = TRUE,
                                 !.left = Producible(l.elements), !.rep = FALSE,
                                 !.done = <<>>])
             /\ UNCHANGED ifccache
    /\ UNCHANGED <<node, ghost, lastAsm, lastGen>>
    /\ StaticUnchanged

\* the style of sub-solid i, alpha pinned to 0.0
StyleColor(sstyle, i) ==
    <<sstyle[(i - 1) * 4 + 1], sstyle[(i - 1) * 4 + 2], sstyle[(i - 1) * 4 + 3], 0>>

MultipleColors(sstyle, shape) ==
    /\ Len(sstyle) > 4
    /\ Len(shape.solids) > 1
    /\ Len(sstyle) \div 4 = Len(shape.solids)

\* sstyle[0] of an empty array: IndexError
StyleFault(sstyle, shape) == ~MultipleColors(sstyle, shape) /\ Len(sstyle) < 3

\* the colors of one item; colors is the list gathered before it
ItemColors(sstyle, shape, colors) ==
    IF MultipleColors(sstyle, shape)
    THEN Flatten([i \in DOMAIN shape.solids |->
                     Repeat(StyleColor(sstyle, i), shape.solids[i])])
         \o (IF Len(colors) < NumFaces(shape)
             THEN Repeat(StyleColor(sstyle, 1), NumFaces(shape) - Len(colors))
             ELSE <<>>)
    ELSE Repeat(StyleColor(sstyle, 1), NumFaces(shape))

\* one turn of the pull loop: get(), the item if new, then next()
ShapeLoop(p) ==
    /\ loc[p].pc = "shape_loop"
    /\ LET l == loc[p] IN
       \E item \in Yieldable(l.left, l.done, l.rep) :
       \E more \in CanAdvance(item, l.left, l.done, l.rep) :
          LET fresh == Fresh(item, l.done)
              shape == BrepShape(item)
              sstyle == surface_styles(item)
              scolors == ItemColors(sstyle, shape, l.colors)
              cache == CacheSolid(Dict(l), item, shape, scolors)
              next == IF more THEN "shape_loop" ELSE "shape_finish"
          IN
             IF ~fresh
             THEN /\ Set(p, [l EXCEPT !.pc = next, !.rep = @ \/ item # NoItem])
                  /\ UNCHANGED ifccache
             ELSE IF StyleFault(sstyle, shape)
             THEN /\ Set(p, [l EXCEPT !.pc = "done", !.raised = TRUE,
                                      !.done = Append(@, item),
                                      !.shapes = Append(@, shape)])
                  /\ UNCHANGED ifccache
             ELSE /\ Set(p, [l EXCEPT !.pc = next, !.left = @ \ {item},
                                      !.done = Append(@, item),
                                      !.shapes = Append(@, shape),
                                      !.colors = @ \o scolors,
                                      !.cache = cache])
                  /\ WriteThrough(l, cache)
    /\ UNCHANGED <<node, ghost, lastAsm, lastGen>>
    /\ StaticUnchanged

\* the cache is written back, the solids merged
ShapeFinish(p) ==
    /\ loc[p].pc = "shape_finish"
    /\ LET l == loc[p]
           shape == IF Len(l.shapes) = 1 THEN l.shapes[1] ELSE makeCompound(l.shapes)
       IN
          /\ ifccache' = set_cache(hasOwner, ifccache, Dict(l))
          /\ SetCacheLocals(p, [l EXCEPT !.pc = "shape_ret", !.alias = hasOwner,
                              !.res = [NoResult EXCEPT !.ok = TRUE, !.shape = shape,
                                                       !.colors = l.colors]])
    /\ UNCHANGED <<node, ghost, lastAsm, lastGen>>
    /\ StaticUnchanged
\* print_debug without its category test
print_debug_always(obj) == TRUE

\* print_debug: the record is printed for an element that is neither a
\* context nor a spatial structure element
print_debug(obj) ==
    ~is_a(StepId(obj), "IfcContext") /\ ~is_a(StepId(obj), "IfcSpatialStructureElement")

\* back in generate_geometry: the solid and its placement are committed, or
\* the debug record printed; then the colors are set
ShapeCommit(p) ==
    /\ loc[p].pc = "shape_ret"
    /\ LET l == loc[p] IN
          IF l.res.ok /\ l.res.shape.kind = "list"
          THEN \* shape.Placement of a list: AttributeError
               /\ Set(p, [l EXCEPT !.pc = "done", !.raised = TRUE])
               /\ UNCHANGED node
          ELSE IF l.res.ok
          THEN /\ node' = [node EXCEPT ![l.obj].Shape = l.res.shape,
                                       ![l.obj].Placement = l.res.shape.Placement,
                                       ![l.obj].colors = IF l.res.colors # <<>>
                                                         THEN l.res.colors ELSE @]
               /\ Set(p, [l EXCEPT !.pc = "done"])
          ELSE /\ Set(p, [l EXCEPT !.pc = "done", !.printed = print_debug(l.obj)])
               /\ UNCHANGED node
    /\ lastAsm' = Summary(loc[p])
    /\ UNCHANGED <<ifccache, ghost, lastGen>>
    /\ StaticUnchanged

-----------------------------------------------------------------------------
(* Mesh Assembler: generate_coin                                            *)

\* the representation filter left out
StripNoRepresentation_none(elements) == elements

\* elements without representation are stripped
StripNoRepresentation(elements) == SelectSeq(elements, Representation)

\* more than one element: placements are applied on the sub-nodes
Grouping(elements) == Len(elements) > 1
\* the placement of the last element is handed back although it was applied
\* to the sub-nodes
ReturnedPlacement_kept(grouping, placement) == placement

\* the placement is nulled when it was applied to the sub-nodes
ReturnedPlacement(grouping, placement) == IF grouping THEN NoPlacement ELSE placement

\* the loop over the elements when cached: copies of the cached nodes, the
\* placement baked into the copy when grouping, the others left in rest
RECURSIVE CoinFromCache(_, _, _, _)
CoinFromCache(acc, elements, cache, grouping) ==
    IF elements = <<>> THEN acc
    ELSE LET e == elements[1]
             k == IdOf(e)
             placement == IF k \in DOMAIN cache.Placement THEN cache.Placement[k]
                          ELSE acc.placement
         IN  IF k \in DOMAIN cache.Coin
             THEN LET copy == cache.Coin[k]
                      n == IF grouping THEN apply_coin_placement(copy, placement)
                           ELSE copy
                  IN  CoinFromCache(
                          [acc EXCEPT !.placement = placement,
                                      !.nodes = Append(@, n),
                                      !.hits = @ \cup {e},
                                      !.raised = @ \/ (grouping /\ ~placement.some)],
                          Tail(elements), cache, grouping)
             ELSE CoinFromCache([acc EXCEPT !.placement = placement,
                                            !.rest = Append(@, e)],
                                Tail(elements), cache, grouping)

\* setup and cached elements, up to the point where the iterator is prepared
CoinSetup(p) ==
    /\ loc[p].pc = "coin_setup"
    /\ LET l == loc[p]
           elements == StripNoRepresentation(l.elements)
           grouping == Grouping(elements)
           cache == get_cache(hasOwner, ifccache)
           l1 == [l EXCEPT !.cache = cache, !.got = TRUE, !.grouping = grouping,
                           !.alias = Aliased(hasOwner, ifccache),
                           !.elements = elements]
           acc == CoinFromCache([nodes |-> <<>>, placement |-> NoPlacement,
                                 rest |-> <<>>, hits |-> {}, raised |-> FALSE],
                                elements, cache, grouping)
       IN
          IF elements = <<>>
          THEN Set(p, [l EXCEPT !.pc = "coin_ret", !.res = NoResult])
          ELSE IF ~l.cached
          THEN Set(p, [l1 EXCEPT !.pc = "coin_open"])
          ELSE IF acc.raised
          THEN Set(p, [l1 EXCEPT !.pc = "done", !.raised = TRUE])
          ELSE IF acc.rest = <<>>
          THEN Set(p, [l1 EXCEPT !.pc = "coin_ret", !.hits = acc.hits,
                          !.res = [NoResult EXCEPT !.ok = TRUE,
                                      !.node = GroupNode(acc.nodes),
                                      !.placement =
                                          ReturnedPlacement(grouping, acc.placement)]])
          ELSE Set(p, [l1 EXCEPT !.pc = "coin_open", !.hits = acc.hits,
                          !.elements = acc.rest,
                          !.placement = ReturnedPlacement(grouping, acc.placement),
                          !.nodes = <<>>, !.cached_nodes = acc.nodes])
    /\ UNCHANGED <<ifccache, node, ghost, lastAsm, lastGen>>
    /\ StaticUnchanged

\* get_geom_iterator in mesh mode: None when initialize() fails
CoinOpen(p) ==
    /\ loc[p].pc = "coin_open"
    /\ LET l == loc[p] IN
          \/ /\ Set(p, [l EXCEPT !.pc = "coin_ret", !.opened = TRUE, !.res = NoResult])
             /\ ifccache' = InvalidIterator(hasOwner, ifccache, Dict(l))
          \/ /\ Set(p, [l EXCEPT !.pc = "coin_loop", !.opened = TRUE,
                                 !.left = Producible(l.elements), !.rep = FALSE,
                                 !.done = <<>>])
             /\ UNCHANGED ifccache
    /\ UNCHANGED <<node, ghost, lastAsm, lastGen>>
    /\ StaticUnchanged

\* the placement applied to the node itself, which is the one in the cache
CachedNode_baked(n, grouping, placement) ==
    IF grouping THEN apply_coin_placement(n, placement) ELSE n

\* the node is written to the cache as built; when grouping, the placement is
\* applied to node.copy(), which leaves the cached node as it is
CachedNode(n, grouping, placement) == n

\* one turn of the pull loop: get(), the item if new, then next()
CoinLoop(p) ==
    /\ loc[p].pc = "coin_loop"
    /\ LET l == loc[p] IN
       \E item \in Yieldable(l.left, l.done, l.rep) :
       \E more \in CanAdvance(item, l.left, l.done, l.rep) :
          LET fresh == Fresh(item, l.done)
              n == ItemNode(item)
              placement == PlacementOf(Translation(item))
              cache == CacheMesh(Dict(l), item,
                                 CachedNode(n, l.grouping, placement), placement)
              added == IF l.grouping THEN apply_coin_placement(n, placement) ELSE n
              next == IF more THEN "coin_loop" ELSE "coin_finish"
          IN
             IF ~fresh
             THEN /\ Set(p, [l EXCEPT !.pc = next, !.rep = @ \/ item # NoItem])
                  /\ UNCHANGED ifccache
             ELSE /\ Set(p, [l EXCEPT !.pc = next, !.left = @ \ {item},
                                      !.done = Append(@, item),
                                      !.placement = placement,
                                      !.nodes = Append(@, added),
                                      !.cache = cache])
                  /\ WriteThrough(l, cache)
    /\ UNCHANGED <<node, ghost, lastAsm, lastGen>>
    /\ StaticUnchanged

\* the cached nodes never added to the result
AddCachedNodes_dropped(nodes, cached_nodes) == nodes

\* "if cached_nodes: nodes.addChild(cached_nodes)": the separator that holds
\* the cached nodes becomes the last child of the result
AddCachedNodes(nodes, cached_nodes) ==
    IF cached_nodes # <<>> THEN Append(nodes, GroupNode(cached_nodes)) ELSE nodes

\* the placement nulled when grouping, the cached nodes added as one child,
\* the cache written back
CoinFinish(p) ==
    /\ loc[p].pc = "coin_finish"
    /\ LET l == loc[p]
           nodes == AddCachedNodes(l.nodes, l.cached_nodes)
       IN
          /\ ifccache' = set_cache(hasOwner, ifccache, Dict(l))
          /\ SetCacheLocals(p, [l EXCEPT !.pc = "coin_ret", !.alias = hasOwner,
                              !.res = [NoResult EXCEPT !.ok = TRUE,
                                          !.node = GroupNode(nodes),
                                          !.placement =
                                              ReturnedPlacement(l.grouping, l.placement)]])
    /\ UNCHANGED <<node, ghost, lastAsm, lastGen>>
    /\ StaticUnchanged

\* "if node:" for the separator handed back: a separator with children is
\* true; whether an empty one is depends on the coin binding
NodeTruth(res) ==
    IF ~res.ok THEN {FALSE}
    ELSE IF res.node.children = <<>> THEN BOOLEAN ELSE {TRUE}

\* back in generate_geometry: the node is added under the base node or the
\* debug record printed; the placement, if any, is committed
CoinCommit(p) ==
    /\ loc[p].pc = "coin_ret"
    /\ loc[p].caller = "generate"
    /\ LET l == loc[p] IN
          \E truth \in NodeTruth(l.res) :
             /\ node' = [node EXCEPT
                    ![l.obj].slot = IF truth THEN Append(@, l.res.node) ELSE @,
                    ![l.obj].Placement = IF l.res.placement.some
                                         THEN l.res.placement.t ELSE @]
             /\ Set(p, [l EXCEPT !.pc = "done",
                                 !.printed = ~truth /\ print_debug(l.obj)])
    /\ lastAsm' = Summary(loc[p])
    /\ UNCHANGED <<ifccache, ghost, lastGen>>
    /\ StaticUnchanged

-----------------------------------------------------------------------------
(* End of a call, mode switches of the view provider, ghost                 *)

\* generate_geometry returns, or the exception leaves it
Return(p) ==
    /\ loc[p].pc = "done"
    /\ LET l == loc[p] IN
          lastGen' = IF l.caller = "generate"
                     THEN [obj |-> l.obj, mode |-> node[l.obj].ShapeMode,
                           cached |-> l.cached, raised |-> l.raised,
                           Shape |-> node[l.obj].Shape,
                           Placement |-> node[l.obj].Placement,
                           colors |-> node[l.obj].colors]
                     ELSE lastGen
    /\ Set(p, Idle)
    /\ UNCHANGED <<ifccache, node, ghost, lastAsm>>
    /\ StaticUnchanged

\* switchShape: Shape becomes Coin with an empty Part.Shape(), Coin becomes
\* Shape; the recompute that follows runs generate_geometry
switchShape(p) ==
    /\ loc[p].pc = "idle"
    /\ GuiUp
    /\ node[focus].ShapeMode \in {"Shape", "Coin"}
    /\ node' = IF node[focus].ShapeMode = "Shape"
               THEN [node EXCEPT ![focus].ShapeMode = "Coin",
                                 ![focus].Shape = NullShape]
               ELSE [node EXCEPT ![focus].ShapeMode = "Shape"]
    /\ \E cached \in BOOLEAN :
          Set(p, [Idle EXCEPT !.pc = "clean", !.caller = "generate",
                              !.obj = focus, !.cached = cached,
                              !.cache0 = ifccache])
    /\ UNCHANGED <<ifccache, ghost, lastAsm, lastGen>>
    /\ StaticUnchanged

\* switchCoin: no representation becomes Coin; recompute follows
switchCoin(p) ==
    /\ loc[p].pc = "idle"
    /\ GuiUp
    /\ node[focus].ShapeMode = "None"
    /\ node' = [node EXCEPT ![focus].ShapeMode = "Coin"]
    /\ \E cached \in BOOLEAN :
          Set(p, [Idle EXCEPT !.pc = "clean", !.caller = "generate",
                              !.obj = focus, !.cached = cached,
                              !.cache0 = ifccache])
    /\ UNCHANGED <<ifccache, ghost, lastAsm, lastGen>>
    /\ StaticUnchanged

\* create_ghost asking generate_coin for the cached version
GhostCached_true == TRUE

\* create_ghost calls generate_coin(ifcfile, elements): cached is False
GhostCached == FALSE

\* create_ghost up to its call of generate_coin: the earlier ghost is deleted,
\* the whole project decomposed and filtered
CreateGhost(p) ==
    /\ loc[p].pc = "idle"
    /\ GuiUp
    /\ ghost' = NoGhost
    /\ LET elements == filter_types(get_decomposed_elements(1, NoObj), {}) IN
          Set(p, [Idle EXCEPT !.pc = "coin_setup", !.caller = "ghost",
                              !.asm = "coin", !.cached = GhostCached,
                              !.elems0 = elements, !.elements = elements,
                              !.cache0 = ifccache])
    /\ UNCHANGED <<ifccache, node, lastAsm, lastGen>>
    /\ StaticUnchanged

\* create_ghost after generate_coin: the node is kept as Proxy.ghost and added
\* to the scene graph
GhostAttach(p) ==
    /\ loc[p].pc = "coin_ret"
    /\ loc[p].caller = "ghost"
    /\ LET l == loc[p] IN
          ghost' = [has |-> TRUE, node |-> l.res.node,
                    sg |-> IF l.res.ok THEN <<l.res.node>> ELSE <<>>]
    /\ lastAsm' = Summary(loc[p])
    /\ Set(p, Idle)
    /\ UNCHANGED <<ifccache, node, lastGen>>
    /\ StaticUnchanged

\* delete_ghost
DeleteGhost(p) ==
    /\ loc[p].pc = "idle"
    /\ GuiUp
    /\ ghost.has
    /\ ghost' = NoGhost
    /\ UNCHANGED <<ifccache, node, loc, lastAsm, lastGen>>
    /\ StaticUnchanged

-----------------------------------------------------------------------------
(* Specification of the generation subsystem                                *)

NoFilterRun == [elements |-> <<>>, obj_ids |-> {}, result |-> <<>>, done |-> FALSE]

NoDecompRun == [obj |-> NoObj, elements |-> <<>>, raw |-> <<>>, done |-> FALSE]

Init ==
    /\ hasOwner \in BOOLEAN
    /\ GuiUp \in BOOLEAN
    /\ noStyle \in {{}, {6}}
    /\ mat = MainMat
    /\ grp = MainGrp
    /\ focus \in MainMat
    /\ ifccache = NoCache
    /\ \E m \in Modes : node = [o \in MainMat |-> NewNode(m)]
    /\ ghost = NoGhost
    /\ loc = [p \in Procs |-> Idle]
    /\ lastAsm = NoAsm
    /\ lastGen = NoGen
    /\ fin = NoFilterRun
    /\ dec = NoDecompRun

Step(p) ==
    \/ Execute(p)
    \/ CleanRepresentation(p)
    \/ Placeholder(p)
    \/ ShapeSetup(p)
    \/ ShapeOpen(p)
    \/ ShapeLoop(p)
    \/ ShapeFinish(p)
    \/ ShapeCommit(p)
    \/ CoinSetup(p)
    \/ CoinOpen(p)
    \/ CoinLoop(p)
    \/ CoinFinish(p)
    \/ CoinCommit(p)
    \/ Return(p)
    \/ switchShape(p)
    \/ switchCoin(p)

Next == \E p \in Serial : Step(p)

Spec == Init /\ [][Next]_vars

\* the ghost of the whole file, made and deleted between the generations of
\* the wall object
InitGhost ==
    /\ Init
    /\ GuiUp
    /\ noStyle = {}
    /\ focus = 3

GhostStep(p) ==
    \/ CreateGhost(p)
    \/ GhostAttach(p)
    \/ DeleteGhost(p)

NextGhost == \E p \in Serial : Step(p) \/ GhostStep(p)

SpecGhost == InitGhost /\ [][NextGhost]_vars

\* two generations of the storey object in Solid mode that the caller does
\* not serialize: their steps interleave
InitRace ==
    /\ Init
    /\ hasOwner /\ GuiUp
    /\ noStyle = {}
    /\ focus = 2
    /\ node[2].ShapeMode = "Shape"

RaceStep(p) ==
    \/ Execute(p)
    \/ CleanRepresentation(p)
    \/ Placeholder(p)
    \/ ShapeSetup(p)
    \/ ShapeOpen(p)
    \/ ShapeLoop(p)
    \/ ShapeFinish(p)
    \/ ShapeCommit(p)
    \/ Return(p)

NextRace == \E p \in Procs : RaceStep(p)

SpecRace == InitRace /\ [][NextRace]_vars

-----------------------------------------------------------------------------
(* filter_types and get_decomposition on their own                          *)

\* one element of every category filter_types tells apart
FilterElems == {1, 2, 3, 4, 5, 7, 8, 11}

SeqsUpTo(S, n) == UNION {[1..k -> S] : k \in 0..n}

InitFilter ==
    /\ hasOwner = TRUE /\ GuiUp = TRUE /\ noStyle = {}
    /\ mat = MainMat /\ grp = MainGrp /\ focus = 1
    /\ ifccache = NoCache
    /\ node = [o \in MainMat |-> NewNode("None")]
    /\ ghost = NoGhost
    /\ loc = [p \in Procs |-> Idle]
    /\ lastAsm = NoAsm /\ lastGen = NoGen
    /\ dec = NoDecompRun
    /\ \E elements \in SeqsUpTo(FilterElems, MaxLen), ids \in SUBSET {2, 3, 7} :
          fin = [NoFilterRun EXCEPT !.elements = elements, !.obj_ids = ids]

ApplyFilter ==
    /\ ~fin.done
    /\ fin' = [fin EXCEPT !.result = filter_types(fin.elements, fin.obj_ids),
                          !.done = TRUE]
    /\ UNCHANGED <<hasOwner, GuiUp, noStyle, mat, grp, focus, ifccache, node,
                   ghost, loc, lastAsm, lastGen, dec>>

SpecFilter == InitFilter /\ [][ApplyFilter]_vars

InitDecomp ==
    /\ hasOwner = TRUE /\ GuiUp = TRUE /\ noStyle = {}
    /\ mat \in {m \in SUBSET ElemIds : WellFormedDoc(m, {})}
    /\ grp \in SUBSET (mat \cap {3, 4, 6})
    /\ focus = 1
    /\ ifccache = NoCache
    /\ node = [o \in mat |-> NewNode("None")]
    /\ ghost = NoGhost
    /\ loc = [p \in Procs |-> Idle]
    /\ lastAsm = NoAsm /\ lastGen = NoGen
    /\ fin = NoFilterRun
    /\ \E o \in mat : dec = [NoDecompRun EXCEPT !.obj = o]

Resolve ==
    /\ ~dec.done
    /\ dec' = [dec EXCEPT !.elements = get_decomposition(dec.obj),
                          !.raw = get_decomposed_elements(StepId(dec.obj), dec.obj),
                          !.done = TRUE]
    /\ UNCHANGED <<hasOwner, GuiUp, noStyle, mat, grp, focus, ifccache, node,
                   ghost, loc, lastAsm, lastGen, fin>>

SpecDecomp == InitDecomp /\ [][Resolve]_vars

-----------------------------------------------------------------------------
(* Properties                                                               *)

\* the call in flight
L == loc[1]

AtAssemblerReturn == L.pc \in {"shape_ret", "coin_ret"}

AtGenerateEnd == L.pc = "done" /\ L.caller = "generate"

\* C1: in Solid mode, two consecutive generate(node, use_cache=true) calls
\* with an owner of the cache, the second starting with a cached solid for
\* every element, both complete normally, commit the same solid, placement
\* and color list, and the second opens no engine iterator.
C1_IdempotentFromCache ==
    (/\ AtGenerateEnd
     /\ hasOwner /\ noStyle = {}
     /\ L.asm = "shape" /\ L.cached
     /\ L.elems0 # <<>>
     /\ Range(L.elems0) \subseteq DOMAIN L.cache0.c.Shape
     /\ lastGen.obj = L.obj /\ lastGen.mode = "Shape" /\ lastGen.cached)
    => (/\ ~L.raised /\ ~lastGen.raised
        /\ node[L.obj].Shape = lastGen.Shape
        /\ node[L.obj].Placement = lastGen.Placement
        /\ node[L.obj].colors = lastGen.colors
        /\ ~L.opened)

\* C2: after an assembly over E with use_cache=false in which the engine
\* yielded an item for every element of E (owner present), the following
\* assembly over the same E with use_cache=true opens no engine iterator,
\* for the shape assembler and for the mesh assembler.
C2_FullCacheHitOpensNoIterator ==
    (/\ AtAssemblerReturn
     /\ hasOwner
     /\ L.cached
     /\ lastAsm.asm = L.asm /\ lastAsm.elems = L.elems0
     /\ ~lastAsm.cached /\ lastAsm.full /\ lastAsm.opened)
    => ~L.opened

\* C1, what the code does: the solid assembler looks the cache up under
\* element.id, a bound method that is no key of the cache, so the second call
\* takes nothing from the cache and runs the engine again.
C1_SecondCallRunsEngine ==
    (/\ AtGenerateEnd /\ hasOwner /\ L.asm = "shape" /\ L.cached
     /\ L.elems0 # <<>> /\ Range(L.elems0) \subseteq DOMAIN L.cache0.c.Shape)
    => L.hits = {} /\ L.opened

\* the second of two cached Solid generations of the same object, every
\* element in the cache
C1_Witness ==
    /\ AtGenerateEnd /\ hasOwner /\ noStyle = {} /\ L.asm = "shape" /\ L.cached
    /\ Len(L.elems0) = 2 /\ Range(L.elems0) \subseteq DOMAIN L.cache0.c.Shape
    /\ lastGen.obj = L.obj /\ lastGen.mode = "Shape" /\ lastGen.cached
    /\ ~lastGen.raised

\* C2, what the code does: after a complete uncached assembly over E, the
\* cached mesh assembly over E opens no iterator, and the cached solid
\* assembly over E opens one.
C2_OnlyMeshServedFromCache ==
    (/\ AtAssemblerReturn /\ hasOwner /\ L.cached
     /\ lastAsm.asm = L.asm /\ lastAsm.elems = L.elems0
     /\ ~lastAsm.cached /\ lastAsm.full /\ lastAsm.opened)
    => (L.opened <=> L.asm = "shape")

\* the cached solid assembly that follows a complete uncached one
C2_Witness ==
    /\ AtAssemblerReturn /\ hasOwner /\ L.cached /\ L.asm = "shape"
    /\ lastAsm.asm = "shape" /\ lastAsm.elems = L.elems0
    /\ ~lastAsm.cached /\ lastAsm.full /\ lastAsm.opened
    /\ Range(L.elems0) \subseteq DOMAIN L.cache0.c.Shape

\* the materialized elements whose object lies under the object of o
UnderObject(o) ==
    {c \in mat : \/ DocParent(c) = o
                 \/ DocParent(DocParent(c)) = o
                 \/ DocParent(DocParent(DocParent(c))) = o}

\* C3: the sequence get_decomposition returns for an object holds no identity
\* twice and no identity of an object materialized under that object.
C3_DecompositionNoDupNoMaterialized ==
    dec.done =>
        /\ NoDup(dec.elements)
        /\ Range(dec.elements) \cap UnderObject(dec.obj) = {}

\* the storey with the wall held under a group object: the part is reached
\* through the wall and as a child of the storey, the wall is excluded
C3_Witness ==
    /\ dec.done /\ dec.obj = 2 /\ mat = {1, 2, 3} /\ grp = {3}
    /\ dec.raw = <<3, 5, 6, 11, 4, 9, 7, 8>>
    /\ dec.elements = <<6, 9>>

\* the classes of the file that are products and none of feature, opening,
\* space, furnishing, annotation
RenderableClasses ==
    {"IfcBuildingStorey", "IfcSite", "IfcWall", "IfcBuildingElementPart",
     "IfcBuildingElementProxy"}

\* C4: filter_types returns exactly the input elements, in input order, that
\* are products, are no feature/opening, space, furnishing or annotation
\* element and whose identity is not excluded; empty input gives empty output.
C4_FilterExact ==
    fin.done =>
        /\ fin.result = SelectSeq(fin.elements,
               LAMBDA e : IfcClass(e) \in RenderableClasses /\ e \notin fin.obj_ids)
        /\ (fin.elements = <<>> => fin.result = <<>>)

C4_Witness ==
    /\ fin.done
    /\ fin.elements = <<3, 7, 2>> /\ fin.obj_ids = {3}
    /\ fin.result = <<2>>

\* the separators of single items in a result node, those of the cached nodes
\* added as one child included
SubNodes(n) ==
    {n.children[i] : i \in {j \in DOMAIN n.children : n.children[j].kind = "sep"}}
    \cup UNION {SubNodes_inner : SubNodes_inner \in
                  {{c.children[i] : i \in DOMAIN c.children} :
                       c \in {n.children[j] : j \in
                                 {k \in DOMAIN n.children : n.children[k].kind = "group"}}}}

WithRepresentation(elements) ==
    {i \in DOMAIN elements : elements[i] \in {3, 4, 5, 6, 7, 8, 11}}

\* C5: mesh assembler: with one element with a representation whose node is
\* produced, the placement of that element is returned and the node's
\* coordinates do not include it; with two or more, the returned placement is
\* null and every sub-node has its own placement in its coordinates once.
C5_GroupingPlacement ==
    (L.pc = "coin_ret" /\ L.res.ok) =>
        /\ (Cardinality(WithRepresentation(L.elems0)) = 1 /\ L.res.node.children # <<>>) =>
              /\ L.res.placement.some
              /\ Len(L.res.node.children) = 1
              /\ LET n == L.res.node.children[1] IN
                    /\ n.kind = "sep"
                    /\ L.elems0[CHOOSE i \in WithRepresentation(L.elems0) : TRUE] = n.id
                    /\ L.res.placement.t = Translation(n.id)
                    /\ n.coords = RawPoint(n.id) * SCALE
        /\ (Cardinality(WithRepresentation(L.elems0)) >= 2) =>
              /\ ~L.res.placement.some
              /\ \A n \in SubNodes(L.res.node) :
                    n.coords = RawPoint(n.id) * SCALE + Translation(n.id)

\* grouping with one node taken from the cache and one built from the engine
C5_Witness ==
    /\ L.pc = "coin_ret" /\ L.res.ok /\ L.cached
    /\ Len(L.elems0) = 2
    /\ Len(L.res.node.children) = 2
    /\ L.res.node.children[1].kind = "sep"
    /\ L.res.node.children[2].kind = "group"

\* C6: called with an empty element list (the mesh assembler also with a list
\* in which no element has a representation), both assemblers return an
\* all-null result without raising and without opening an engine iterator,
\* and leave the cache of the file unchanged.
C6_EmptyInput ==
    (/\ AtAssemblerReturn
     /\ \/ L.elems0 = <<>>
        \/ L.asm = "coin" /\ WithRepresentation(L.elems0) = {})
    => (/\ L.res = NoResult
        /\ ~L.raised
        /\ ~L.opened
        /\ ifccache = L.cache0)

\* the mesh assembler handed the site alone, which has no representation,
\* while the owner holds a cache
C6_Witness ==
    /\ L.pc = "coin_ret" /\ L.elems0 = <<10>> /\ L.cached
    /\ hasOwner /\ ifccache.held

SolidKinds == {"box", "solid", "compound"}

\* C7: from the placeholder step on, and at the end of every generate call,
\* for every mode and every outcome of the assembler, the object holds a
\* non-null solid: the assembled one or the placeholder box.
C7_NeverWithoutSolid ==
    /\ (L.caller = "generate" /\ L.pc \notin {"idle", "clean", "placeholder"})
          => node[L.obj].Shape.kind \in SolidKinds
    /\ lastGen.obj # NoObj => lastGen.Shape.kind \in SolidKinds

\* the engine failed to initialize in Solid mode after switchShape had emptied
\* the solid: the box is what the object holds
C7_Witness ==
    /\ L.pc = "shape_ret" /\ L.caller = "generate"
    /\ L.opened /\ ~L.res.ok
    /\ node[L.obj].Shape = BoxShape
    /\ lastGen.obj = L.obj /\ lastGen.mode = "Coin"

\* C8: generate never ends in an unhandled fault: for every mode, cache state
\* and engine outcome the call returns normally.
C8_NoUnhandledFault == AtGenerateEnd => ~L.raised

\* C8, what the code does: the one fault that leaves generate is the index
\* error of the solid assembler on an item with an empty surface-style array;
\* the object is left with the placeholder box and nothing is committed.
C8_OnlyStyleFault ==
    (AtGenerateEnd /\ L.raised)
    => (/\ L.asm = "shape"
        /\ L.done # <<>>
        /\ surface_styles(L.done[Len(L.done)]) = <<>>
        /\ node[L.obj].Shape = BoxShape)

\* the fault on the second item, after the first was assembled
C8_Witness ==
    /\ AtGenerateEnd /\ L.raised
    /\ Len(L.done) = 2 /\ Len(L.shapes) = 2

\* C9: without an owner of the file handle, put changes nothing and every get
\* returns four empty mappings, so nothing computed in one assembly is seen by
\* the next; with an owner that holds a cache, get returns that cache.
C9_CacheOwner ==
    /\ ~hasOwner => /\ ifccache = NoCache
                    /\ L.hits = {}
                    /\ L.pc \in {"shape_open", "coin_open"} => L.cache = EmptyCache
    /\ (hasOwner /\ L.pc \in {"shape_open", "coin_open"} /\ L.cache0.held)
          => L.cache = L.cache0.c /\ L.cache = ifccache.c

\* no owner: the mesh assembly that follows a complete one over the same
\* elements, asked to use the cache, gets an empty cache
C9_Witness ==
    /\ ~hasOwner
    /\ L.pc = "coin_open" /\ L.cached /\ L.cache = EmptyCache
    /\ lastAsm.asm = "coin" /\ lastAsm.full /\ lastAsm.elems = L.elems0

\* C10 as claimed: create_ghost reads no entry of the cache and the cache of
\* the file handle is the same before and after the call.
C10_GhostLeavesCache ==
    (L.pc = "coin_ret" /\ L.caller = "ghost")
        => L.hits = {} /\ ifccache.c = L.cache0.c

\* C10 amended: create_ghost reads no entry of the cache and leaves the solid
\* and color mappings as they were; the cache is the same before and after
\* the call when no object owns the file handle or the engine yields no item;
\* with an owner, the node and the placement of every yielded item are written
\* under its identity and every other entry is kept.
C10_GhostWritesOnlyMesh ==
    (L.pc = "coin_ret" /\ L.caller = "ghost") =>
        /\ L.hits = {}
        /\ ifccache.c.Shape = L.cache0.c.Shape
        /\ ifccache.c.Color = L.cache0.c.Color
        /\ (~hasOwner \/ L.done = <<>>) => ifccache.c = L.cache0.c
        /\ hasOwner =>
              /\ DOMAIN ifccache.c.Coin = DOMAIN L.cache0.c.Coin \cup Range(L.done)
              /\ DOMAIN ifccache.c.Placement =
                     DOMAIN L.cache0.c.Placement \cup Range(L.done)
              /\ \A k \in DOMAIN ifccache.c.Coin :
                    IF k \in Range(L.done)
                    THEN /\ ifccache.c.Coin[k].coords = RawPoint(k) * SCALE
                         /\ ifccache.c.Placement[k] = PlacementOf(Translation(k))
                    ELSE /\ ifccache.c.Coin[k] = L.cache0.c.Coin[k]
                         /\ ifccache.c.Placement[k] = L.cache0.c.Placement[k]

\* a ghost made while the owner holds solids and one mesh node: the other
\* mesh node is written
C10_Witness ==
    /\ L.pc = "coin_ret" /\ L.caller = "ghost" /\ hasOwner
    /\ DOMAIN L.cache0.c.Shape = {3, 6}
    /\ DOMAIN L.cache0.c.Coin = {3}
    /\ DOMAIN ifccache.c.Coin = {3, 6}

PastSetCache(p) ==
    /\ loc[p].pc \in {"shape_ret", "coin_ret", "done"}
    /\ loc[p].res.ok /\ loc[p].opened

\* both calls have passed set_cache and the cache of the owner lacks an entry
\* one of them wrote
LostUpdate ==
    /\ \A p \in Procs : PastSetCache(p)
    /\ \E p \in Procs : \E k \in Range(loc[p].done) : k \notin DOMAIN ifccache.c.Shape

\* C12: two generations of one file handle whose get_cache and set_cache steps
\* interleave can end with a cache that lacks an entry one of them wrote. The
\* entries of a call bound to the dictionary of the owner are never lost: the
\* loser is a call whose dictionary the set_cache of the other replaced.
C12_LostUpdateByReplacement ==
    /\ \A p \in Procs :
          (PastSetCache(p) /\ loc[p].alias)
              => Range(loc[p].done) \subseteq DOMAIN ifccache.c.Shape
    /\ LostUpdate => \E p \in Procs : ~loc[p].alias

\* both calls past set_cache: the part written by the first is missing from
\* the cache, which is the empty dictionary the second put
C12_Witness ==
    /\ LostUpdate
    /\ loc[1].done = <<6>> /\ loc[2].done = <<>>
    /\ ifccache.held /\ DOMAIN ifccache.c.Shape = {}

\* the solid assembler handed back a solid
ShapeReturned == L.pc = "shape_ret" /\ L.res.ok

\* the items processed in the call that carry several styles on several solids
SeveralStyles == {e \in Range(L.done) : Len(surface_styles(e)) > 4 /\ Len(SolidFaces(e)) > 1}

\* C13 as claimed: the color list returned by the solid assembler has exactly
\* one entry per face of the returned solid, for every mix of items, those with
\* several materials and sub-solids included.
C13_OneColorPerFace ==
    ShapeReturned => Len(L.res.colors) = NumFaces(L.res.shape)

\* C13, what the code does: one entry per face, in the order of the faces,
\* when no item has several styles; an item with several styles on several
\* solids gets entries beyond its faces, as many as its faces exceed the colors
\* gathered before it.
C13_ExtraColorsForSeveralStyles ==
    ShapeReturned =>
        /\ SeveralStyles = {} =>
              /\ Len(L.res.colors) = NumFaces(L.res.shape)
              /\ \A i \in DOMAIN L.done :
                    L.res.colors[i] = <<70, 80, 90, 0>>
        /\ SeveralStyles # {} => Len(L.res.colors) > NumFaces(L.res.shape)

\* the wall, two solids of two and one faces with a style each, is the first
\* item: six colors for three faces
C13_Witness ==
    /\ ShapeReturned /\ L.done = <<3>>
    /\ NumFaces(L.res.shape) = 3
    /\ L.res.colors = <<(<<10, 20, 30, 0>>), (<<10, 20, 30, 0>>), (<<40, 50, 60, 0>>),
                        (<<10, 20, 30, 0>>), (<<10, 20, 30, 0>>), (<<10, 20, 30, 0>>)>>

InOrPastLoop ==
    /\ L.opened
    /\ L.pc \in {"shape_loop", "shape_finish", "shape_ret",
                 "coin_loop", "coin_finish", "coin_ret"}

\* C15: within one assembler call every identity the engine yields is
\* processed at most once, also when the engine yields it again: one solid or
\* node and one entry of the call's cache dictionary per identity; the list of
\* processed identities is empty when the iterator is prepared, whatever an
\* earlier call processed.
C15_ProcessedOncePerCall ==
    /\ L.pc \in {"shape_open", "coin_open"} => L.done = <<>>
    /\ InOrPastLoop =>
          /\ NoDup(L.done)
          /\ L.asm = "shape" =>
                /\ Len(L.shapes) = Cardinality(L.hits) + Len(L.done)
                /\ Range(L.done) \subseteq DOMAIN L.cache.Shape
          /\ L.asm = "coin" =>
                /\ Len(L.nodes) = Len(L.done)
                /\ Range(L.done) \subseteq DOMAIN L.cache.Coin

\* the engine yielded an identity a second time in a mesh assembly that
\* follows a complete one over the same elements: both are processed again,
\* once each
C15_Witness ==
    /\ L.pc = "coin_ret" /\ L.opened /\ L.rep
    /\ L.done = <<3, 6>> /\ Len(L.nodes) = 2
    /\ lastAsm.asm = "coin" /\ lastAsm.full /\ lastAsm.elems = L.elems0

\* the identities of a sequence of nodes
Ids(ns) == [i \in DOMAIN ns |-> ns[i].id]

\* the elements served from the cache, in the order of the element list
HitSeq == SelectSeq(L.elems0, LAMBDA e : e \in L.hits)

\* a mesh assembly with cache hits and misses has returned a node
MixedMeshReturned ==
    L.pc = "coin_ret" /\ L.res.ok /\ L.opened /\ L.hits # {}

\* C16 as claimed: in a mesh assembly with cache hits and misses the returned
\* group has every freshly built node and every cached clone as a direct
\* member exactly once, the cached clones after the fresh ones.
C16_ClonesDirectMembers ==
    MixedMeshReturned =>
        /\ \A i \in DOMAIN L.res.node.children : L.res.node.children[i].kind = "sep"
        /\ Ids(L.res.node.children) = L.done \o HitSeq

\* C16 amended: no cached clone is added to the result group while the pull
\* loop runs; the returned group has every freshly built node as a direct
\* member exactly once, in the order built, followed by one separator, added
\* after the loop, that holds every cached clone exactly once.
C16_ClonesInOneSubGroup ==
    /\ (L.pc \in {"coin_loop", "coin_finish"} /\ L.hits # {}) =>
          /\ Ids(L.nodes) = L.done
          /\ Ids(L.cached_nodes) = HitSeq
    /\ MixedMeshReturned =>
          LET ch == L.res.node.children
              n == Len(ch)
          IN  /\ n = Len(L.done) + 1
              /\ \A i \in 1..(n - 1) : ch[i].kind = "sep" /\ ch[i].id = L.done[i]
              /\ ch[n].kind = "group"
              /\ Ids(ch[n].children) = HitSeq
              /\ NoDup(L.done \o HitSeq)

\* the wall taken from the cache, the part built from the engine: the part is
\* the first child, the separator holding the wall's clone the second
C16_Witness ==
    /\ MixedMeshReturned
    /\ L.hits = {3} /\ L.done = <<6>>
    /\ Ids(L.res.node.children) = <<6, 0>>
    /\ Ids(L.res.node.children[2].children) = <<3>>

\* C17: after any sequence of generate calls on an object, with any changes
\* of its representation mode between them, the reserved place under the base
\* node holds at most one injected mesh node; after a call in Solid or None
\* mode it holds none, and after a Mesh call that was handed a node with
\* content it holds exactly that node.
C17_AtMostOneInjectedNode ==
    /\ \A o \in MainMat : Len(node[o].slot) <= 1
    /\ AtGenerateEnd =>
          /\ L.asm \in {"shape", "none"} => node[L.obj].slot = <<>>
          /\ (L.asm = "coin" /\ ~L.res.ok) => node[L.obj].slot = <<>>
          /\ (L.asm = "coin" /\ L.res.ok) =>
                /\ node[L.obj].slot \in {<<>>, <<L.res.node>>}
                /\ L.res.node.children # <<>> => node[L.obj].slot = <<L.res.node>>

\* a Mesh call after a Solid call on the same object ends with the node it
\* built in the reserved place
C17_Witness ==
    /\ AtGenerateEnd /\ L.asm = "coin" /\ L.res.ok
    /\ Len(L.res.node.children) = 2
    /\ node[L.obj].slot = <<L.res.node>>
    /\ lastGen.obj = L.obj /\ lastGen.mode = "Shape"

\* C18: in every reachable cache, an identity has a cached solid exactly when
\* it has a cached color list, and a cached mesh node exactly when it has a
\* cached placement; this holds for the cache of the owner and for the
\* dictionary of the call in flight, between any two turns of the pull loops.
C18_EntriesInPairs ==
    /\ DOMAIN ifccache.c.Shape = DOMAIN ifccache.c.Color
    /\ DOMAIN ifccache.c.Coin = DOMAIN ifccache.c.Placement
    /\ DOMAIN L.cache.Shape = DOMAIN L.cache.Color
    /\ DOMAIN L.cache.Coin = DOMAIN L.cache.Placement
    /\ \A k \in DOMAIN ifccache.c.Shape :
          /\ ifccache.c.Shape[k] = BrepShape(k)
          /\ Len(ifccache.c.Color[k]) >= NumFaces(BrepShape(k))
    /\ \A k \in DOMAIN ifccache.c.Coin :
          ifccache.c.Placement[k] = PlacementOf(Translation(k))

\* the owner holds solids and colors for the wall and its part and a mesh
\* node and placement for the part only, while a mesh call is in its loop
C18_Witness ==
    /\ hasOwner /\ L.pc = "coin_loop"
    /\ DOMAIN ifccache.c.Shape = {3, 6} /\ DOMAIN ifccache.c.Color = {3, 6}
    /\ DOMAIN ifccache.c.Coin = {6} /\ DOMAIN ifccache.c.Placement = {6}

\* the coordinates of the node of identity k as built, and with its placement
\* applied once
Unbaked(k) == RawPoint(k) * SCALE

BakedOnce(k) == RawPoint(k) * SCALE + Translation(k)

\* C19: after any sequence of mesh assemblies, grouped or not, cached or not,
\* every mesh node in the cache is unbaked; the placement is applied to clones
\* only, and to no node twice: every node handed back has its coordinates as
\* built or with its own placement applied once.
C19_CachedNodesUnbaked ==
    /\ \A k \in DOMAIN ifccache.c.Coin : ifccache.c.Coin[k].coords = Unbaked(k)
    /\ \A k \in DOMAIN L.cache.Coin : L.cache.Coin[k].coords = Unbaked(k)
    /\ (L.pc = "coin_ret" /\ L.res.ok) =>
          \A n \in SubNodes(L.res.node) :
             n.coords = IF L.grouping THEN BakedOnce(n.id) ELSE Unbaked(n.id)

\* a grouped assembly served from the cache: the clones handed back are
\* baked, the nodes in the cache are not
C19_Witness ==
    /\ L.pc = "coin_ret" /\ L.res.ok /\ L.grouping /\ L.hits = {3, 6}
    /\ \A n \in SubNodes(L.res.node) : n.coords = BakedOnce(n.id)
    /\ Cardinality(SubNodes(L.res.node)) = 2
    /\ \A k \in {3, 6} : ifccache.c.Coin[k].coords = Unbaked(k)

\* C20: from its start to its return, a solid assembly leaves the mesh node
\* and placement mappings of the cache as they were, and a mesh assembly
\* leaves the solid and color mappings as they were, for every input and
\* cache state.
C20_DisjointMappings ==
    /\ L.asm = "shape" =>
          /\ ifccache.c.Coin = L.cache0.c.Coin
          /\ ifccache.c.Placement = L.cache0.c.Placement
    /\ L.asm = "coin" =>
          /\ ifccache.c.Shape = L.cache0.c.Shape
          /\ ifccache.c.Color = L.cache0.c.Color

\* a solid assembly that wrote the wall's solid into a cache holding mesh
\* nodes and placements of the wall and its part
C20_Witness ==
    /\ L.pc = "shape_ret" /\ L.res.ok /\ hasOwner
    /\ DOMAIN L.cache0.c.Coin = {3, 6}
    /\ DOMAIN L.cache0.c.Shape = {}
    /\ DOMAIN ifccache.c.Shape = {3}
    /\ ifccache.c.Coin = L.cache0.c.Coin

\* the identities resolved both for the object just resolved and for another
\* object of the document
ResolvedTwice(o2) == Range(dec.elements) \cap Range(get_decomposition(o2))

\* C21 as claimed: no element identity appears in the sequences resolved for
\* two different objects of the document, whatever the shape of the child
\* lists, children held under a plain group object included.
C21_ResolvedForOneObjectOnly ==
    dec.done => \A o2 \in mat \ {dec.obj} : ResolvedTwice(o2) = {}

\* C21, what the code does: an identity resolved for two objects is never the
\* identity of an object itself; it is an element that has no object, below a
\* materialized element, and the two objects are one above the other.
C21_OnlyUnmaterializedDescendants ==
    dec.done =>
        \A o2 \in mat \ {dec.obj} : \A e \in ResolvedTwice(o2) :
            /\ e \notin mat
            /\ DocParent(e) \in mat
            /\ o2 \in UnderObject(dec.obj) \/ dec.obj \in UnderObject(o2)

\* the wall's object held under a plain group object of the storey's object:
\* the part of the wall is resolved for the storey and for the wall
C21_Witness ==
    /\ dec.done /\ dec.obj = 2 /\ mat = {1, 2, 3} /\ grp = {3}
    /\ ResolvedTwice(3) = {6}
    /\ 5 \in Range(dec.raw) /\ 3 \notin Range(dec.elements)

\* C22: with the calls serialized and an owner of the file handle, the set of
\* identities of each cache mapping never shrinks: no step of any generate
\* call, with cached true or false, removes an entry.
C22_CacheNeverShrinks ==
    [][hasOwner =>
          /\ DOMAIN ifccache.c.Shape \subseteq DOMAIN ifccache'.c.Shape
          /\ DOMAIN ifccache.c.Color \subseteq DOMAIN ifccache'.c.Color
          /\ DOMAIN ifccache.c.Coin \subseteq DOMAIN ifccache'.c.Coin
          /\ DOMAIN ifccache.c.Placement \subseteq DOMAIN ifccache'.c.Placement]_vars

\* an uncached Solid call in which the engine yielded the part only has put
\* the cache back: the wall's entry, written by an earlier call, is still there
C22_Witness ==
    /\ hasOwner /\ AtGenerateEnd /\ L.asm = "shape" /\ ~L.cached /\ L.res.ok
    /\ L.elems0 = <<3, 6>> /\ L.done = <<6>>
    /\ DOMAIN L.cache0.c.Shape = {3, 6}
    /\ DOMAIN ifccache.c.Shape = {3, 6}
    /\ DOMAIN ifccache.c.Coin = {3, 6}

\* the solids of a result of the solid assembler
SolidsOf(shape) == IF shape.kind = "solid" THEN {shape} ELSE Range(shape.parts)

\* C23: in both assemblers the scale factor is applied to the raw coordinates
\* before the placement of the item: a point of a solid, and of a baked mesh
\* sub-node, is the raw point times the scale plus the translation, which is
\* not scaled; an unbaked mesh node has the raw point times the scale and the
\* translation is handed back beside it.
C23_ScaleBeforePlacement ==
    /\ ShapeReturned =>
          \A s \in SolidsOf(L.res.shape) :
             s.pt = SCALE * RawPoint(s.id) + Translation(s.id)
    /\ (L.pc = "coin_ret" /\ L.res.ok) =>
          \A n \in SubNodes(L.res.node) :
             IF L.grouping
             THEN n.coords = SCALE * RawPoint(n.id) + Translation(n.id)
             ELSE /\ n.coords = SCALE * RawPoint(n.id)
                  /\ L.res.placement = [some |-> TRUE, t |-> Translation(n.id)]

\* the wall alone as a solid: raw point 2, scale 1000, translation 7
C23_Witness ==
    /\ ShapeReturned /\ L.done = <<3>>
    /\ L.res.shape.pt = 2007
    /\ L.res.shape.pt # (2 + 7) * SCALE

\* a mesh assembly served from the cache alone, right after the assembly with
\* use_cache=false over the same elements in which the engine yielded them all
FullMeshHit ==
    /\ L.pc = "coin_ret" /\ hasOwner /\ L.cached /\ ~L.opened /\ L.res.ok
    /\ lastAsm.asm = "coin" /\ ~lastAsm.cached /\ lastAsm.full
    /\ lastAsm.elems = L.elems0

PerFaceColors(e) ==
    IF MultipleColors(surface_styles(e), BrepShape(e))
    THEN Flatten([i \in DOMAIN SolidFaces(e) |->
                     Repeat(StyleColor(surface_styles(e), i), SolidFaces(e)[i])])
    ELSE Repeat(StyleColor(surface_styles(e), 1), NumFaces(BrepShape(e)))

\* the color lists kept: in the cache of the owner and in the cache of the call
CachedColors == {ifccache.c.Color, L.cache.Color}

\* C25 as stated: the color list cached for an identity holds, for an item of
\* N > 1 styles on N sub-solids, the color of style i for each face of
\* sub-solid i and no other entry; in every other case one entry per face,
\* all the color of the first style; the alpha component is 0.
C25_CachedColorsPerFace ==
    \A m \in CachedColors : \A k \in DOMAIN m : m[k] = PerFaceColors(k)

\* C25, what the code does: the list of every other case is as stated; the
\* list of an item of N > 1 styles on N sub-solids starts with the colors per
\* face and goes on with copies of the color of the first style, at most one
\* per face; the alpha component is 0.
C25_PaddedForSeveralStyles ==
    \A m \in CachedColors : \A k \in DOMAIN m :
       LET c == m[k]
           n == Len(PerFaceColors(k))
       IN  /\ \A i \in DOMAIN c : c[i][4] = 0
           /\ ~MultipleColors(surface_styles(k), BrepShape(k)) => c = PerFaceColors(k)
           /\ MultipleColors(surface_styles(k), BrepShape(k)) =>
                 /\ n <= Len(c) /\ Len(c) <= 2 * n
                 /\ SubSeq(c, 1, n) = PerFaceColors(k)
                 /\ \A i \in (n + 1)..Len(c) : c[i] = StyleColor(surface_styles(k), 1)

\* the wall yielded first: six colors cached for its three faces; the part:
\* one color for its one face
C25_Witness ==
    /\ hasOwner /\ L.pc = "shape_ret" /\ L.done = <<3, 6>>
    /\ Len(ifccache.c.Color[3]) = 6 /\ NumFaces(BrepShape(3)) = 3
    /\ ifccache.c.Color[6] = <<(<<70, 80, 90, 0>>)>>

-----------------------------------------------------------------------------
(* Termination of the pull loops                                            *)

\* a call that is inside an assembler keeps running: the loop body and the
\* statements after the loop are executed by the one thread that made the call
LoopFairness ==
    /\ WF_vars(ShapeLoop(1)) /\ WF_vars(ShapeFinish(1))
    /\ WF_vars(CoinLoop(1)) /\ WF_vars(CoinFinish(1))

SpecLive == Init /\ [][Next]_vars /\ LoopFairness

InLoop == L.pc \in {"shape_loop", "coin_loop"}

\* the assembler is back in generate_geometry and the cache was written back
WrittenBackAndReturned ==
    /\ L.pc \in {"shape_ret", "coin_ret"}
    /\ hasOwner => ifccache.held /\ ifccache.c = L.cache

\* C26 as stated: for every finite engine stream the pull loop of each
\* assembler terminates, and the assembler then writes the cache back and
\* returns; the loop is left only when advance() returned false, for the
\* statements after the loop.
C26_DrainedThenWrittenBack ==
    /\ InLoop ~> WrittenBackAndReturned
    /\ [][InLoop => L'.pc \in {L.pc, "shape_finish", "coin_finish"}]_vars
    /\ [][L.pc \in {"shape_finish", "coin_finish"} => WrittenBackAndReturned']_vars

\* C26, what the code does: the pull loop of each assembler terminates; it is
\* left for the statements after the loop or, in the solid assembler, by the
\* exception of an item without a style; unless that exception is raised the
\* assembler writes the cache back and returns.
C26_DrainedUnlessStyleFault ==
    /\ InLoop ~> (WrittenBackAndReturned \/ (L.pc = "done" /\ L.raised))
    /\ [][InLoop =>
            \/ L'.pc \in {L.pc, "shape_finish", "coin_finish"}
            \/ /\ L.pc = "shape_loop" /\ L'.pc = "done" /\ L'.raised
               /\ \E e \in noStyle : L'.done = Append(L.done, e)]_vars
    /\ [][L.pc \in {"shape_finish", "coin_finish"} => WrittenBackAndReturned']_vars

\* the mesh loop drained after two items and the cache written back
C26_Witness ==
    /\ hasOwner /\ L.pc = "coin_ret" /\ L.opened /\ L.done = <<6, 3>>
    /\ ifccache.held /\ DOMAIN ifccache.c.Coin = {3, 6}

\* the assembler is back in generate_geometry after get_geom_iterator
\* returned None
InvalidIteratorReturn == AtAssemblerReturn /\ L.opened /\ ~L.res.ok

\* C27: when the engine fails to initialize, the assembler returns nothing
\* but nulls, does not write the cache back and leaves every mapping of the
\* cache as it was when the call began, also when use_cache is true and
\* elements were taken from the cache before the iterator was prepared.
C27_InvalidIteratorLeavesCache ==
    InvalidIteratorReturn =>
        /\ L.res = NoResult
        /\ ifccache = L.cache0
        /\ L.cache0.held => Dict(L) = L.cache0.c

\* the mesh assembler took the wall from the cache, then the engine failed to
\* initialize for the part
C27_Witness ==
    /\ InvalidIteratorReturn /\ L.asm = "coin" /\ L.cached /\ hasOwner
    /\ L.elems0 = <<3, 6>> /\ L.hits = {3} /\ L.elements = <<6>>
    /\ DOMAIN ifccache.c.Coin = {3}

\* generate has ended for the object of a product with a representation; the
\* engine was initialized and yielded no item, nothing came from the cache
EngineYieldedNothing ==
    /\ AtGenerateEnd /\ ~L.raised
    /\ L.opened /\ L.res.ok /\ L.done = <<>> /\ L.hits = {}
    /\ Representation(StepId(L.obj))
    /\ ~is_a(StepId(L.obj), "IfcContext")
    /\ ~is_a(StepId(L.obj), "IfcSpatialStructureElement")

\* C28 as stated: when the engine initializes but yields no item for the
\* object of a product with a representation, generate prints the debug
\* record, in Solid mode and in Mesh mode.
C28_NothingYieldedIsPrinted == EngineYieldedNothing => L.printed

\* C28, what the code does: in Solid mode the empty compound is taken for a
\* result, put on the object in place of the box, and no record is printed;
\* in Mesh mode the record is printed exactly when the empty separator tests
\* false, and the separator is added under the base node when it tests true.
C28_EmptyCompoundNotPrinted ==
    EngineYieldedNothing =>
        /\ L.asm = "shape" =>
              /\ ~L.printed
              /\ node[L.obj].Shape = makeCompound(<<>>)
        /\ L.asm = "coin" =>
              (L.printed <=> GroupNode(<<>>) \notin Range(node[L.obj].slot))

\* the wall in Solid mode: the engine yields nothing, the object carries an
\* empty compound and nothing was printed
C28_Witness ==
    /\ EngineYieldedNothing /\ L.asm = "shape" /\ L.obj = 3
    /\ ~L.printed /\ node[3].Shape.kind = "compound" /\ node[3].Shape.parts = <<>>

=============================================================================
